---- MODULE Spec2Model ----
(***************************************************************************)
(* Calibration updater (src/script.py): one run of main() reads a JSON     *)
(* configuration and a calibration CSV, overwrites the selected fields of  *)
(* every region with the calibration values, and writes the result.        *)
(*                                                                         *)
(* Python objects live in a heap of dictionaries addressed by reference,   *)
(* so that aliasing between the loaded configuration and the updated one   *)
(* is something the model can express.  Files and the command line are the *)
(* environment: their contents are fixed by Init.                          *)
(***************************************************************************)
EXTENDS Integers, Sequences, FiniteSets, TLC

VARIABLES
    pc,                 \* the statement of main() the process is at
    run,                \* 1: first invocation, 2: re-invocation on the output
    fs_config,          \* the file at args.config
    fs_calibration,     \* the file at args.calibration
    fs_output,          \* the file at args.output
    calibration_fields, \* args.calibration_fields
    heap,               \* the dictionaries the process has built
    config,             \* main(): reference to the loaded configuration
    calibration_data,   \* main(): the calibration table
    updated_config,     \* main(): reference to the updated configuration
    stdout,             \* lines printed to sys.stdout
    stderr,             \* lines printed to sys.stderr
    exit_code,          \* the process's exit status, -1 until it ends
    first               \* what the first invocation left behind

vars == <<pc, run, fs_config, fs_calibration, fs_output, calibration_fields,
          heap, config, calibration_data, updated_config, stdout, stderr,
          exit_code, first>>

(***************************************************************************)
(* Bounds of the model.                                                    *)
(***************************************************************************)
MaxRows == 2          \* data rows of a calibration file
MaxFields == 2        \* names given to --calibration-fields

RegionOrder == <<"A", "B">>       \* region names, in document key order
RegionNames == {RegionOrder[i] : i \in 1..Len(RegionOrder)}
FieldOrder == <<"full_fill_percent", "empty_fill_percent">>
FieldNames == {FieldOrder[i] : i \in 1..Len(FieldOrder)}
ConfigValues == {2}               \* scalar values of a region's fields

None == <<"None">>                \* Python's None, as a cell of a short row

Range(s) == {s[i] : i \in 1..Len(s)}

(***************************************************************************)
(* Values.  A document is a mapping with the key "name" and, optionally,   *)
(* the key "regions": region name -> (field name -> scalar).               *)
(***************************************************************************)
RegionConfigs == UNION {[fs -> ConfigValues] : fs \in SUBSET FieldNames}
RegionMaps == UNION {[rs -> RegionConfigs] : rs \in SUBSET RegionNames}
Documents ==
    {[name |-> "machine"]} \cup {[name |-> "machine", regions |-> m] : m \in RegionMaps}

\* The keys of a regions mapping in iteration order.
RECURSIVE KeysInOrder(_, _)
KeysInOrder(keys, order) ==
    IF order = <<>> THEN <<>>
    ELSE IF Head(order) \in keys
         THEN <<Head(order)>> \o KeysInOrder(keys, Tail(order))
         ELSE KeysInOrder(keys, Tail(order))

(***************************************************************************)
(* json.load / json.loads: build fresh dictionaries for a document.  The   *)
(* top dictionary holds a reference to the regions dictionary, which holds *)
(* a reference to each region's dictionary.                                *)
(***************************************************************************)
Loads(h, doc) ==
    LET top == Len(h) + 1
    IN  IF "regions" \notin DOMAIN doc
        THEN [heap |-> Append(h, doc), ref |-> top]
        ELSE LET names == KeysInOrder(DOMAIN doc.regions, RegionOrder)
                 regs == top + 1
                 at(r) == CHOOSE i \in 1..Len(names) : names[i] = r
                 topObj == [k \in DOMAIN doc |->
                              IF k = "regions" THEN regs ELSE doc[k]]
                 regsObj == [r \in DOMAIN doc.regions |-> regs + at(r)]
                 regionObjs == [i \in 1..Len(names) |-> doc.regions[names[i]]]
             IN  [heap |-> h \o <<topObj, regsObj>> \o regionObjs, ref |-> top]

\* json.dump / json.dumps: the document a reference denotes.
Dumps(h, ref) ==
    LET top == h[ref]
    IN  IF "regions" \notin DOMAIN top
        THEN top
        ELSE LET regsObj == h[top.regions]
             IN  [k \in DOMAIN top |->
                    IF k = "regions"
                    THEN [r \in DOMAIN regsObj |-> h[regsObj[r]]]
                    ELSE top[k]]

(***************************************************************************)
(* Text of a CSV cell: a sequence of characters.                           *)
(***************************************************************************)
DigitChars == <<"0", "1", "2", "3", "4", "5", "6", "7", "8", "9">>
IsDigit(c) == \E i \in 1..Len(DigitChars) : DigitChars[i] = c
DigitValue(c) == (CHOOSE i \in 1..Len(DigitChars) : DigitChars[i] = c) - 1

RECURSIVE LStrip(_)
LStrip(s) == IF s # <<>> /\ Head(s) = " " THEN LStrip(Tail(s)) ELSE s
RECURSIVE RStrip(_)
RStrip(s) ==
    IF s # <<>> /\ s[Len(s)] = " " THEN RStrip(SubSeq(s, 1, Len(s) - 1)) ELSE s
\* str.strip()
Strip(s) == RStrip(LStrip(s))

RECURSIVE DecimalValue(_)
DecimalValue(s) ==
    IF s = <<>> THEN 0
    ELSE 10 * DecimalValue(SubSeq(s, 1, Len(s) - 1)) + DigitValue(s[Len(s)])

\* float(value) succeeds: surrounding whitespace is ignored and what is left
\* is a numeral (the cells of the model hold unsigned decimal numerals only).
IsNumeral(s) == Strip(s) # <<>> /\ \A i \in 1..Len(Strip(s)) : IsDigit(Strip(s)[i])
Float(s) == DecimalValue(Strip(s))

\* A bug the claims must detect: a cell that does not parse counts as zero.
CellValueOrZero(value) ==
    IF value # None /\ value # <<>> /\ Strip(value) # <<>>
    THEN IF IsNumeral(value) THEN <<Float(value)>> ELSE <<0>>
    ELSE <<>>

\* Lines 99-105: the number a cell contributes, <<v>>, or <<>> for a cell that
\* is None, empty, blank or not a number (ValueError is swallowed).
CellValue(value) ==
    IF value # None /\ value # <<>> /\ Strip(value) # <<>>
    THEN IF IsNumeral(value) THEN <<Float(value)>> ELSE <<>>
    ELSE <<>>

(***************************************************************************)
(* csv.DictReader: a data row becomes a dictionary keyed by the header's   *)
(* column names; a repeated name keeps its last cell, a column the row is  *)
(* too short for is None.                                                  *)
(***************************************************************************)
DictRow(header, row) ==
    [k \in Range(header) |->
        LET i == CHOOSE j \in 1..Len(header) :
                     header[j] = k /\ \A l \in (j + 1)..Len(header) : header[l] # k
        IN  IF i <= Len(row) THEN row[i] ELSE None]

\* Line 92: row.get('', '')
RowLabel(d) == IF "" \in DOMAIN d THEN d[""] ELSE ""

\* Lines 95-105: the region columns of a row whose cells are numbers.
RegionData(d) ==
    [region \in {k \in DOMAIN d : k # "" /\ CellValue(d[k]) # <<>>} |->
        CellValue(d[region])[1]]

\* A bug the claims must detect: a repeated label updates the field's entry.
StoreRowMerged(table, row_label, region_data) ==
    [f \in DOMAIN table \cup {row_label} |->
        IF f # row_label THEN table[f]
        ELSE IF f \notin DOMAIN table THEN region_data
        ELSE [r \in DOMAIN table[f] \cup DOMAIN region_data |->
                IF r \in DOMAIN region_data THEN region_data[r] ELSE table[f][r]]]

\* Line 109: calibration_data[row_label] = region_data
StoreRow(table, row_label, region_data) ==
    [f \in DOMAIN table \cup {row_label} |->
        IF f = row_label THEN region_data ELSE table[f]]

\* Lines 83-109: the table after the rows, in file order.
RECURSIVE LoadRows(_, _, _)
LoadRows(table, header, rows) ==
    IF rows = <<>> THEN table
    ELSE LET d == DictRow(header, Head(rows))
             next == IF RowLabel(d) # ""
                     THEN StoreRow(table, RowLabel(d), RegionData(d))
                     ELSE table
         IN  LoadRows(next, header, Tail(rows))

load_calibration_data(file) == LoadRows(<<>>, file.header, file.rows)

(***************************************************************************)
(* update_config_with_calibration.  st is the state the loop threads:      *)
(* the heap, the lines printed to stdout, the lines printed to stderr.     *)
(***************************************************************************)

\* A bug the claims must detect: the "copy" is the object itself.
AliasCopy(h, ref) == [heap |-> h, ref |-> ref]

\* Line 125: json.loads(json.dumps(config))
DeepCopy(h, ref) == Loads(h, Dumps(h, ref))

\* A bug the claims must detect: the warning is not written.
NoRegionsSilent == <<>>

\* Line 129: the warning of a configuration without 'regions'.
NoRegionsWarning == <<[kind |-> "NoRegions"]>>

\* Bugs the claims must detect: every field of the table is applied; each
\* selected field is applied once however often it is listed.
FieldsOfTable(fields, table) ==
    KeysInOrder(DOMAIN table, FieldOrder)
RECURSIVE Deduplicated(_)
Deduplicated(s) ==
    IF s = <<>> THEN <<>>
    ELSE LET init == SubSeq(s, 1, Len(s) - 1)
         IN  IF s[Len(s)] \in Range(init) THEN Deduplicated(init)
             ELSE Append(Deduplicated(init), s[Len(s)])
FieldsDeduplicated(fields, table) == Deduplicated(fields)

\* Line 135: the fields the inner loop visits, in order.
FieldsToApply(fields, table) == fields

\* Lines 137-139: the table has a value for this field and region.
HasCalibration(table, field, region_name) ==
    field \in DOMAIN table /\ region_name \in DOMAIN table[field]

\* A bug the claims must detect: the value of the table's first region column.
NewValueFirstColumn(table, field, region_name) ==
    table[field][Head(KeysInOrder(DOMAIN table[field], RegionOrder))]

\* Line 142: new_value
NewValue(table, field, region_name) == table[field][region_name]

\* A bug the claims must detect: a line only when the value changes.
ChangeLinesIfChanged(region_name, field, old_value, new_value) ==
    IF old_value = new_value THEN <<>>
    ELSE <<[kind |-> "Updated", region |-> region_name, field |-> field,
            old |-> old_value, new |-> new_value]>>

\* Line 145: print(f"Updated {region_name}.{field}: {old_value} -> {new_value}")
ChangeLines(region_name, field, old_value, new_value) ==
    <<[kind |-> "Updated", region |-> region_name, field |-> field,
       old |-> old_value, new |-> new_value]>>

\* A bug the claims must detect: the calibration value is added to the old one.
OverwriteFieldAccumulate(st, region_name, region_config, field, table) ==
    LET new_value == NewValue(table, field, region_name)
        old_value == st.heap[region_config][field]
    IN  [st EXCEPT !.heap[region_config][field] = old_value + new_value,
                   !.out = @ \o ChangeLines(region_name, field, old_value,
                                            old_value + new_value)]

\* Lines 142-145: overwrite the field and report the change.
OverwriteField(st, region_name, region_config, field, table) ==
    LET new_value == NewValue(table, field, region_name)
        old_value == st.heap[region_config][field]
    IN  [st EXCEPT !.heap[region_config][field] = new_value,
                   !.out = @ \o ChangeLines(region_name, field, old_value, new_value)]

\* A bug the claims must detect: the missing field is created.
FieldNotFoundInsert(st, region_name, region_config, field, table) ==
    LET obj == st.heap[region_config]
        new_value == NewValue(table, field, region_name)
    IN  [st EXCEPT !.heap[region_config] =
                       [k \in DOMAIN obj \cup {field} |->
                           IF k = field THEN new_value ELSE obj[k]],
                   !.err = Append(@, [kind |-> "FieldNotFound",
                                      field |-> field, region |-> region_name])]

\* Lines 146-147: the region has no such field: a warning, nothing else.
FieldNotFound(st, region_name, region_config, field, table) ==
    [st EXCEPT !.err = Append(@, [kind |-> "FieldNotFound",
                                  field |-> field, region |-> region_name])]

\* Lines 137-147: the body of the inner loop.
UpdateField(st, region_name, region_config, field, table) ==
    IF HasCalibration(table, field, region_name)
    THEN IF field \in DOMAIN st.heap[region_config]
         THEN OverwriteField(st, region_name, region_config, field, table)
         ELSE FieldNotFound(st, region_name, region_config, field, table)
    ELSE st

\* Lines 135-147: the inner loop over the selected fields.
RECURSIVE UpdateRegion(_, _, _, _, _)
UpdateRegion(st, region_name, region_config, fields, table) ==
    IF fields = <<>> THEN st
    ELSE UpdateRegion(UpdateField(st, region_name, region_config, Head(fields), table),
                      region_name, region_config, Tail(fields), table)

\* Lines 133-147: the outer loop over updated_config['regions'].items().
RECURSIVE UpdateRegions(_, _, _, _, _)
UpdateRegions(st, regions, names, fields, table) ==
    IF names = <<>> THEN st
    ELSE UpdateRegions(
             UpdateRegion(st, Head(names), st.heap[regions][Head(names)],
                          FieldsToApply(fields, table), table),
             regions, Tail(names), fields, table)

\* Lines 118-149: the heap, the returned reference and the lines printed.
update_config_with_calibration(h, cfg, table, fields) ==
    LET copy == DeepCopy(h, cfg)
        st0 == [heap |-> copy.heap, out |-> <<>>, err |-> <<>>]
        top == copy.heap[copy.ref]
    IN  IF "regions" \notin DOMAIN top
        THEN [st |-> [st0 EXCEPT !.err = NoRegionsWarning], ref |-> copy.ref]
        ELSE [st |-> UpdateRegions(
                         st0, top.regions,
                         KeysInOrder(DOMAIN copy.heap[top.regions], RegionOrder),
                         fields, table),
              ref |-> copy.ref]

(***************************************************************************)
(* The environment: files and command lines.                               *)
(***************************************************************************)
Missing == [state |-> "missing"]
Unreadable == [state |-> "unreadable"]
Malformed == [state |-> "malformed"]

\* --calibration-fields: one name or more (nargs='+'), repeats allowed.
Selectors == UNION {[1..n -> FieldNames] : n \in 1..MaxFields}

ConfigFiles ==
    {[state |-> "ok", content |-> d] : d \in Documents}
        \cup {Missing, Unreadable, Malformed}

\* Calibration files as the operator writes them: a label column, a column
\* per region, a row per field, each cell a number or empty.
TableRows(labels) ==
    {[i \in 1..Len(labels) |-> <<labels[i], c[i][1], c[i][2]>>] :
        c \in [1..Len(labels) -> {<<>>, <<"1">>, <<"2">>} \X {<<>>, <<"3">>}]}
TabularFiles ==
    {[state |-> "ok", header |-> <<"", "A", "B">>, rows |-> rows] :
        rows \in UNION {TableRows(KeysInOrder(fs, FieldOrder)) : fs \in SUBSET FieldNames}}

\* Calibration files in general: with or without the label column, rows
\* with empty, blank, non-numeric and numeric cells, and short rows.
Labels == {""} \cup FieldNames
CellsA == {<<>>, <<" ">>, <<"x">>, <<"1">>, <<" ", "2">>}
LabelledRows ==
    {<<l, a, <<"1">>>> : l \in Labels, a \in CellsA}
        \cup {<<l, <<"1">>>> : l \in Labels}
UnlabelledRows ==
    {<<a, <<"1">>>> : a \in CellsA} \cup {<<<<"1">>>>}
CsvFiles ==
    {[state |-> "ok", header |-> <<"", "A", "B">>, rows |-> rows] :
        rows \in UNION {[1..n -> LabelledRows] : n \in 0..MaxRows}}
    \cup
    {[state |-> "ok", header |-> <<"A", "B">>, rows |-> rows] :
        rows \in UNION {[1..n -> UnlabelledRows] : n \in 0..MaxRows}}

\* A configuration in which every region has every field.
FullDocument ==
    [name |-> "machine",
     regions |-> [r \in RegionNames |-> [f \in FieldNames |-> 2]]]

InitProcess ==
    /\ pc = "parse_arguments"
    /\ run = 1
    /\ fs_output = Missing
    /\ heap = <<>>
    /\ config = 0
    /\ calibration_data = <<>>
    /\ updated_config = 0
    /\ stdout = <<>>
    /\ stderr = <<>>
    /\ exit_code = -1
    /\ first = <<>>

\* Every configuration, every selector, tabular calibration files.
Init ==
    /\ fs_config \in ConfigFiles
    /\ fs_calibration \in TabularFiles \cup {Missing, Unreadable}
    /\ calibration_fields \in Selectors
    /\ InitProcess

\* Every calibration file, the full configuration, every field selected.
InitLoad ==
    /\ fs_config = [state |-> "ok", content |-> FullDocument]
    /\ fs_calibration \in CsvFiles \cup {Unreadable}
    /\ calibration_fields = FieldOrder
    /\ InitProcess

(***************************************************************************)
(* main(), statement by statement.                                         *)
(***************************************************************************)
Exit(code, line) ==
    /\ pc' = "exited"
    /\ exit_code' = code
    /\ stderr' = stderr \o line

\* Lines 53-61: both input files must exist (parser.error exits with 2).
ParseArguments ==
    /\ pc = "parse_arguments"
    /\ IF fs_config.state = "missing" \/ fs_calibration.state = "missing"
       THEN Exit(2, <<[kind |-> "FileNotFound"]>>)
       ELSE /\ pc' = "load_json_config"
            /\ UNCHANGED <<exit_code, stderr>>
    /\ UNCHANGED <<run, fs_config, fs_calibration, fs_output, calibration_fields,
                   heap, config, calibration_data, updated_config, stdout, first>>

\* Lines 64-74 and 172.
LoadJsonConfig ==
    /\ pc = "load_json_config"
    /\ IF fs_config.state = "ok"
       THEN LET loaded == Loads(heap, fs_config.content)
            IN  /\ heap' = loaded.heap
                /\ config' = loaded.ref
                /\ pc' = "load_calibration_data"
                /\ UNCHANGED <<exit_code, stderr>>
       ELSE /\ Exit(1, <<[kind |-> "ConfigError"]>>)
            /\ UNCHANGED <<heap, config>>
    /\ UNCHANGED <<run, fs_config, fs_calibration, fs_output, calibration_fields,
                   calibration_data, updated_config, stdout, first>>

\* Lines 77-115 and 175.
LoadCalibrationData ==
    /\ pc = "load_calibration_data"
    /\ IF fs_calibration.state = "ok"
       THEN /\ calibration_data' = load_calibration_data(fs_calibration)
            /\ pc' = "update_config"
            /\ UNCHANGED <<exit_code, stderr>>
       ELSE /\ Exit(1, <<[kind |-> "CalibrationError"]>>)
            /\ UNCHANGED calibration_data
    /\ UNCHANGED <<run, fs_config, fs_calibration, fs_output, calibration_fields,
                   heap, config, updated_config, stdout, first>>

\* Lines 118-149 and 178-182.
UpdateConfig ==
    /\ pc = "update_config"
    /\ LET result == update_config_with_calibration(
                         heap, config, calibration_data, calibration_fields)
       IN  /\ heap' = result.st.heap
           /\ updated_config' = result.ref
           /\ stdout' = stdout \o result.st.out
           /\ stderr' = stderr \o result.st.err
    /\ pc' = "save_config"
    /\ UNCHANGED <<run, fs_config, fs_calibration, fs_output, calibration_fields,
                   config, calibration_data, exit_code, first>>

\* Lines 152-163 and 185: the output is written, or the write fails.
SaveConfig ==
    /\ pc = "save_config"
    /\ \E writable \in BOOLEAN :
          IF writable
          THEN /\ fs_output' = [state |-> "ok", content |-> Dumps(heap, updated_config)]
               /\ stdout' = Append(stdout, [kind |-> "Wrote"])
               /\ pc' = "exited"
               /\ exit_code' = 0
               /\ UNCHANGED stderr
          ELSE /\ Exit(1, <<[kind |-> "WriteError"]>>)
               /\ UNCHANGED <<fs_output, stdout>>
    /\ UNCHANGED <<run, fs_config, fs_calibration, calibration_fields,
                   heap, config, calibration_data, updated_config, first>>

\* The operator runs the program again on its own output, with the same
\* calibration file and the same fields.
RunAgain ==
    /\ pc = "exited"
    /\ exit_code = 0
    /\ run = 1
    /\ run' = 2
    /\ first' = [input |-> fs_config.content, output |-> fs_output.content,
                 stdout |-> stdout, stderr |-> stderr]
    /\ fs_config' = fs_output
    /\ pc' = "parse_arguments"
    /\ heap' = <<>>
    /\ config' = 0
    /\ calibration_data' = <<>>
    /\ updated_config' = 0
    /\ stdout' = <<>>
    /\ stderr' = <<>>
    /\ exit_code' = -1
    /\ UNCHANGED <<fs_calibration, fs_output, calibration_fields>>

Next ==
    \/ ParseArguments
    \/ LoadJsonConfig
    \/ LoadCalibrationData
    \/ UpdateConfig
    \/ SaveConfig
    \/ RunAgain

Spec == Init /\ [][Next]_vars
SpecLoad == InitLoad /\ [][Next]_vars

(***************************************************************************)
(* Vocabulary of the properties.                                           *)
(***************************************************************************)
\* update_config_with_calibration has returned in this invocation.
Merged == pc = "save_config" \/ (pc = "exited" /\ updated_config # 0)
\* load_calibration_data has returned in this invocation.
Loaded == pc = "update_config" \/ Merged

In == fs_config.content                   \* the configuration as loaded
Out == Dumps(heap, updated_config)        \* the configuration as returned
HasRegions(d) == "regions" \in DOMAIN d

Selected(f) == \E i \in 1..Len(calibration_fields) : calibration_fields[i] = f
Occurrences(f) == Cardinality({i \in 1..Len(calibration_fields) : calibration_fields[i] = f})
InTable(f, r) == f \in DOMAIN calibration_data /\ r \in DOMAIN calibration_data[f]
Eligible(r, f) == Selected(f) /\ InTable(f, r) /\ f \in DOMAIN In.regions[r]

IsUpdate(l) == l.kind = "Updated"
Updates(lines) == SelectSeq(lines, IsUpdate)
\* The positions of the change records of cell (r, f), in order.
RecordsOf(r, f) ==
    {i \in 1..Len(Updates(stdout)) :
        Updates(stdout)[i].region = r /\ Updates(stdout)[i].field = f}

\* Every value of the output is the table's where the cell is eligible and
\* the input's everywhere else.
OverwriteRule ==
    HasRegions(In) =>
        /\ HasRegions(Out)
        /\ \A r \in DOMAIN In.regions \cap DOMAIN Out.regions :
             \A f \in DOMAIN In.regions[r] \cap DOMAIN Out.regions[r] :
                Out.regions[r][f] = IF Eligible(r, f) THEN calibration_data[f][r]
                                    ELSE In.regions[r][f]

\* The change records are those of eligible cells, with the table's value as
\* the new one, and every eligible cell has one.
RecordsMatchCells ==
    HasRegions(In) =>
        /\ \A i \in 1..Len(Updates(stdout)) :
             LET l == Updates(stdout)[i]
             IN  /\ l.region \in DOMAIN In.regions
                 /\ Eligible(l.region, l.field)
                 /\ l.new = calibration_data[l.field][l.region]
        /\ \A r \in DOMAIN In.regions : \A f \in FieldNames :
             Eligible(r, f) => RecordsOf(r, f) # {}

\* The rows of the calibration file as csv.DictReader yields them.
Rows == [i \in 1..Len(fs_calibration.rows) |->
            DictRow(fs_calibration.header, fs_calibration.rows[i])]
RegionColumns == Range(fs_calibration.header) \ {""}
Numeric(cell) == cell # None /\ cell # <<>> /\ IsNumeral(cell)
LabelOf(i) == IF "" \in DOMAIN Rows[i] THEN Rows[i][""] ELSE ""

(***************************************************************************)
(* C1: after update_config_with_calibration returns, the configuration     *)
(* object passed in denotes the document it denoted before the call, and   *)
(* the dictionaries it is made of are the ones that were loaded.           *)
(***************************************************************************)
C1_NonDestructive ==
    Merged =>
        /\ Dumps(heap, config) = In
        /\ Loads(<<>>, In).heap = SubSeq(heap, 1, Len(Loads(<<>>, In).heap))
        /\ updated_config # config

\* An overwrite changed a value of the returned copy.
C1_Witness == Merged /\ HasRegions(In) /\ Out # In /\ Dumps(heap, config) = In

(***************************************************************************)
(* C2, as stated: the output value of r.f is table[f][r] when f is         *)
(* selected, the table has (f, r) and r has key f, and the input value     *)
(* otherwise; each overwrite records (r, f, input value, table value).     *)
(***************************************************************************)
C2_AsStated ==
    Merged =>
        /\ OverwriteRule
        /\ RecordsMatchCells
        /\ HasRegions(In) =>
             \A i \in 1..Len(Updates(stdout)) :
                LET l == Updates(stdout)[i]
                IN  l.old = In.regions[l.region][l.field]

(***************************************************************************)
(* C2, amended: the values are as stated; each overwrite records           *)
(* (r, f, old, table value), where old is the input value for the first    *)
(* record of the cell and the table value for every later record of it.    *)
(***************************************************************************)
C2_OverwriteRule ==
    Merged =>
        /\ OverwriteRule
        /\ RecordsMatchCells
        /\ HasRegions(In) =>
             \A i \in 1..Len(Updates(stdout)) :
                LET l == Updates(stdout)[i]
                    earlier == {j \in RecordsOf(l.region, l.field) : j < i}
                IN  l.old = IF earlier = {} THEN In.regions[l.region][l.field]
                            ELSE calibration_data[l.field][l.region]

\* A cell was overwritten with a value different from its input value, and
\* another cell of the same region kept its value.
C2_Witness ==
    /\ Merged /\ HasRegions(In)
    /\ \E r \in DOMAIN In.regions : \E f, g \in DOMAIN In.regions[r] :
          /\ Eligible(r, f) /\ Out.regions[r][f] # In.regions[r][f]
          /\ ~Eligible(r, g) /\ InTable(g, r)

(***************************************************************************)
(* C3: a field that is not in the selector keeps its input value in every  *)
(* region, also where the table has a value for it.                        *)
(***************************************************************************)
C3_SelectorScoping ==
    (Merged /\ HasRegions(In)) =>
        \A r \in DOMAIN In.regions : \A f \in FieldNames :
            ~Selected(f) =>
                /\ f \in DOMAIN In.regions[r] <=> f \in DOMAIN Out.regions[r]
                /\ f \in DOMAIN In.regions[r] => Out.regions[r][f] = In.regions[r][f]

\* The table has a different value for an unselected field the region has.
C3_Witness ==
    /\ Merged /\ HasRegions(In)
    /\ \E r \in DOMAIN In.regions : \E f \in DOMAIN In.regions[r] :
          /\ ~Selected(f) /\ InTable(f, r)
          /\ calibration_data[f][r] # In.regions[r][f]

(***************************************************************************)
(* C4: the merge inserts no key: the regions and each region's keys are    *)
(* those of the input; a selected field the table has for a region that    *)
(* lacks it gets a 'field not found' warning; the merge goes on, so that   *)
(* the eligible cells are still overwritten and the process does not end.  *)
(***************************************************************************)
C4_MissingField ==
    (Merged /\ HasRegions(In)) =>
        /\ DOMAIN Out.regions = DOMAIN In.regions
        /\ \A r \in DOMAIN In.regions :
             /\ DOMAIN Out.regions[r] = DOMAIN In.regions[r]
             /\ \A f \in FieldNames :
                  (Selected(f) /\ InTable(f, r) /\ f \notin DOMAIN In.regions[r])
                      <=> \E i \in 1..Len(stderr) :
                             stderr[i] = [kind |-> "FieldNotFound",
                                          field |-> f, region |-> r]
        /\ OverwriteRule
        /\ pc = "save_config" => exit_code = -1

\* A warning for a missing field, and an overwrite of a later cell.
C4_Witness ==
    /\ Merged /\ HasRegions(In)
    /\ \E r \in DOMAIN In.regions : \E f \in FieldNames :
          /\ Selected(f) /\ InTable(f, r) /\ f \notin DOMAIN In.regions[r]
          /\ \E i \in 1..Len(Updates(stdout)) :
                /\ Updates(stdout)[i].region = "B"
                /\ r = "A"

(***************************************************************************)
(* C5: merging the output of a merge again, with the same table and the    *)
(* same selector, returns a document equal to that output.                 *)
(***************************************************************************)
C5_Idempotent ==
    (run = 2 /\ Merged) => (In = first.output /\ Out = first.output)

\* The first merge changed the document, and the second has run.
C5_Witness == run = 2 /\ Merged /\ first.output # first.input

(***************************************************************************)
(* C6, as stated: a merge of the output of a merge with the same table and *)
(* selector emits no change record.                                        *)
(***************************************************************************)
C6_AsStated == (run = 2 /\ Merged) => Updates(stdout) = <<>>

(***************************************************************************)
(* C6, amended: the second merge emits the change records of the first     *)
(* again, for the same cells in the same order and with the same new       *)
(* values, each with its old value equal to its new value.                 *)
(***************************************************************************)
C6_RerunRecords ==
    (run = 2 /\ Merged) =>
        /\ Len(Updates(stdout)) = Len(Updates(first.stdout))
        /\ \A i \in 1..Len(Updates(stdout)) :
             /\ Updates(stdout)[i].region = Updates(first.stdout)[i].region
             /\ Updates(stdout)[i].field = Updates(first.stdout)[i].field
             /\ Updates(stdout)[i].new = Updates(first.stdout)[i].new
             /\ Updates(stdout)[i].old = Updates(stdout)[i].new

\* The second merge has emitted a change record.
C6_Witness == run = 2 /\ Merged /\ Updates(stdout) # <<>>

(***************************************************************************)
(* C7: a configuration without 'regions' is returned as it is, with the    *)
(* 'no regions' warning as the only line on stderr and no change record;   *)
(* the process goes on to save_config, which writes that document and      *)
(* exits with status 0 (status 1 only when the write itself fails).        *)
(***************************************************************************)
C7_NoRegions ==
    (Merged /\ ~HasRegions(In)) =>
        /\ Out = In
        /\ Updates(stdout) = <<>>
        /\ pc = "save_config" =>
             exit_code = -1 /\ stderr = <<[kind |-> "NoRegions"]>>
        /\ pc = "exited" =>
             \/ /\ exit_code = 0
                /\ stderr = <<[kind |-> "NoRegions"]>>
                /\ fs_output = [state |-> "ok", content |-> In]
             \/ /\ exit_code = 1
                /\ stderr = <<[kind |-> "NoRegions"], [kind |-> "WriteError"]>>

\* A run on a configuration without 'regions', a table with values and the
\* output written.
C7_Witness ==
    /\ run = 1 /\ Merged /\ ~HasRegions(In)
    /\ pc = "exited" /\ exit_code = 0 /\ fs_output.state = "ok"
    /\ \E f \in DOMAIN calibration_data : calibration_data[f] # <<>>

(***************************************************************************)
(* C9, as stated: in one run every (region, field) pair is overwritten at  *)
(* most once and has at most one change record, whatever the selector.     *)
(***************************************************************************)
C9_AsStated ==
    (Merged /\ HasRegions(In)) =>
        \A r \in DOMAIN In.regions : \A f \in FieldNames :
            Cardinality(RecordsOf(r, f)) <= 1

(***************************************************************************)
(* C9, amended: in one run every eligible (region, field) pair is          *)
(* overwritten once for each occurrence of the field in the selector (at   *)
(* most once when no field is listed twice), each time with the same       *)
(* value; every other pair is not overwritten at all.                      *)
(***************************************************************************)
C9_WritesPerCell ==
    (Merged /\ HasRegions(In)) =>
        \A r \in DOMAIN In.regions : \A f \in FieldNames :
            /\ Cardinality(RecordsOf(r, f)) =
                   IF Eligible(r, f) THEN Occurrences(f) ELSE 0
            /\ \A i, j \in RecordsOf(r, f) :
                   Updates(stdout)[i].new = Updates(stdout)[j].new

\* A cell with two change records.
C9_Witness ==
    /\ Merged /\ HasRegions(In)
    /\ \E r \in DOMAIN In.regions : \E f \in FieldNames :
          Cardinality(RecordsOf(r, f)) = 2

(***************************************************************************)
(* C8: the loaded table has an entry (f, r) only if a row has the          *)
(* non-empty label f and a cell in region column r that is a number, which *)
(* is the entry's value; the empty label is no key; a cell that is not a   *)
(* number ends nothing; and a (region, field) for which no row has a       *)
(* number keeps its configuration value through the merge.                 *)
(***************************************************************************)
C8_DropPolicy ==
    /\ Loaded =>
         /\ "" \notin DOMAIN calibration_data
         /\ \A f \in DOMAIN calibration_data : \A r \in DOMAIN calibration_data[f] :
               \E i \in 1..Len(Rows) :
                  /\ LabelOf(i) = f
                  /\ r \in RegionColumns
                  /\ Numeric(Rows[i][r])
                  /\ calibration_data[f][r] = Float(Rows[i][r])
    /\ (fs_calibration.state = "ok" /\ pc = "exited") =>
         \A i \in 1..Len(stderr) : stderr[i].kind # "CalibrationError"
    /\ (Merged /\ HasRegions(In)) =>
         \A r \in DOMAIN In.regions : \A f \in DOMAIN In.regions[r] :
            (\A i \in 1..Len(Rows) :
                LabelOf(i) = f => (r \notin RegionColumns \/ ~Numeric(Rows[i][r])))
                => Out.regions[r][f] = In.regions[r][f]

\* A row without label that has a number, a labelled row with a cell that is
\* not a number, and the merge done.
C8_Witness ==
    /\ Merged /\ HasRegions(In) /\ "" \in Range(fs_calibration.header)
    /\ \E i, j \in 1..Len(Rows) :
          /\ LabelOf(i) = "" /\ Numeric(Rows[i]["A"])
          /\ LabelOf(j) \in DOMAIN In.regions["A"]
          /\ Rows[j]["A"] = <<"x">>
          /\ Numeric(Rows[j]["B"])

(***************************************************************************)
(* C10, as stated: every row with a non-empty label f and a number in      *)
(* region column r leaves table[f][r] defined in the loaded table, also    *)
(* when a later row has the same label.                                    *)
(***************************************************************************)
C10_AsStated ==
    Loaded =>
        \A i \in 1..Len(Rows) : \A r \in RegionColumns :
            (LabelOf(i) # "" /\ Numeric(Rows[i][r]))
                => InTable(LabelOf(i), r)

(***************************************************************************)
(* C10, amended: a row with a non-empty label f replaces table[f]: the     *)
(* fields of the loaded table are the non-empty labels, and table[f] holds *)
(* exactly the numbers of the last row labelled f.                         *)
(***************************************************************************)
C10_LastRowWins ==
    Loaded =>
        /\ DOMAIN calibration_data = {LabelOf(i) : i \in 1..Len(Rows)} \ {""}
        /\ \A f \in DOMAIN calibration_data :
             LET last == CHOOSE i \in 1..Len(Rows) :
                             LabelOf(i) = f /\ \A j \in (i + 1)..Len(Rows) : LabelOf(j) # f
             IN  /\ DOMAIN calibration_data[f] =
                        {r \in RegionColumns : Numeric(Rows[last][r])}
                 /\ \A r \in DOMAIN calibration_data[f] :
                        calibration_data[f][r] = Float(Rows[last][r])

\* Two rows with the same label: the first has a number where the second has
\* none, and the second has a number too.
C10_Witness ==
    /\ Loaded /\ Len(Rows) >= 2 /\ "" \in Range(fs_calibration.header)
    /\ \E i, j \in 1..Len(Rows) :
          /\ i < j /\ LabelOf(i) # "" /\ LabelOf(i) = LabelOf(j)
          /\ Numeric(Rows[i]["A"]) /\ ~Numeric(Rows[j]["A"])
          /\ Numeric(Rows[j]["B"])

====
